---- MODULE Spec2Model ----
(***************************************************************************)
(* ConnectionPool (CommonConnectionPool.cpp): the idle queue, the live     *)
(* connection counter, the mutex and condition variable that guard them,   *)
(* the producer thread, the scanner (reaper) thread, getConnection and the *)
(* shared_ptr deleter that returns a connection to the queue.              *)
(*                                                                         *)
(* Time is kept in milliseconds and advances in steps of TickMs.  Instead  *)
(* of absolute timestamps the model keeps, for every connection, the value *)
(* getAliveeTime() would return (now - aliveTime), saturated at the idle   *)
(* threshold, which is the only value it is ever compared with.            *)
(***************************************************************************)
EXTENDS Integers, Sequences, FiniteSets

\* ---------------------------------------------------------------- bounds
NumClients == 2      \* application threads calling getConnection
MaxInitSize == 2     \* initSize is read from mysql.ini: 1..MaxInitSize
MaxExtra == 1        \* maxSize is read from mysql.ini: initSize..initSize+MaxExtra
MaxIdleSecs == 1     \* maxIdleTime read from mysql.ini, in seconds
TimeoutTicks == 2    \* connectionTimeOut read from mysql.ini, in clock ticks

\* ------------------------------------------------------ program constants
MsPerSec == 1000     \* scannerConnectionTask: _maxIdleTime * 1000

\* The clock advances one second at a time.
TickMs == MsPerSec

\* ---------------------------------------------------------------- threads
Clients == 1..NumClients
Producer == NumClients + 1
Scanner == NumClients + 2
Threads == Clients \cup {Producer, Scanner}

Conns == 1..(MaxInitSize + MaxExtra)

Min(a, b) == IF a < b THEN a ELSE b
Max(a, b) == IF a < b THEN b ELSE a

VARIABLES
  configLoaded,       \* loadConfigFile() returned true
  initSize, maxSize, maxIdleTime, connectionTimeout,   \* _initSize, ...
  connectionQue,      \* _connectionQue: sequence of connections, front first
  connectionCnt,      \* _connectionCnt
  queueMutex,         \* _queueMutex: the set of threads holding it
  pc,                 \* position of every thread
  status,             \* per client: result of its last cv.wait_for
  waitLeft,           \* per client: time left of its current cv.wait_for
  exhausted,          \* per client: its call met an exhausted pool and no
                      \* lease has been returned since
  waited,             \* per client: time such a call has spent in cv.wait_for
  ret,                \* per client: what its last getConnection returned
  leases,             \* per client: connections held by its shared_ptr handles
  releasing,          \* per client: the connection its running deleter returns
  sleepLeft,          \* scanner: time left of its sleep_for
  exists,             \* per connection: constructed and not deleted
  lastConnect,        \* what the most recent Connection::connect() returned
  age,                \* per connection: what getAliveeTime() would return
  health              \* "ok", "crashed" or "corrupt" (after undefined behaviour)

cfgVars == <<configLoaded, initSize, maxSize, maxIdleTime, connectionTimeout>>
poolVars == <<connectionQue, connectionCnt, exists, lastConnect, age>>
clientVars == <<status, waitLeft, waited, exhausted, ret, leases, releasing>>
vars == <<cfgVars, poolVars, clientVars, queueMutex, pc, sleepLeft, health>>

\* ------------------------------------------------------------- Connection
\* The idle threshold the scanner compares getAliveeTime() with.
IdleThreshold == maxIdleTime * MsPerSec

\* Connection::refreshAliveTime(): the idle time restarts at zero.
refreshAliveTime(a, c) == [a EXCEPT ![c] = 0]

\* Connection::getAliveeTime(): milliseconds since the last refresh.
getAliveeTime(c) == age[c]

\* The reading after d more milliseconds (saturated at the threshold).
Older(a, d) == Min(a + d, IdleThreshold)

\* new Connection(): the storage of a deleted connection may be used again.
FreeConns == {c \in Conns : ~exists[c] /\ \A t \in Clients : c \notin leases[t]}
NewConn == CHOOSE c \in FreeConns : \A d \in FreeConns : c <= d

\* ------------------------------------------------------ condition variable
\* cv.notify_all(): every thread blocked in cv.wait / cv.wait_for wakes up
\* and has to take the mutex again.
notify_all(p) ==
  [t \in Threads |->
     IF p[t] = "p_wait" THEN "p_lock"
     ELSE IF p[t] = "g_wait" THEN "g_lock"
     ELSE p[t]]

\* The wait_for result of the clients woken by a notify_all.
notified(p, s) ==
  [t \in Clients |-> IF p[t] = "g_wait" THEN "no_timeout" ELSE s[t]]

InCall(t) == pc[t] \in {"g_lock", "g_check", "g_wait"}

\* ------------------------------------------------------------------- Init
\* Mutant of ThreadsStarted: the constructor goes on after a failed load.
ThreadsStarted_Always == TRUE

\* if (!loadConfigFile()) return;  before any thread is started.
ThreadsStarted == configLoaded

\* The state after ConnectionPool::ConnectionPool().  When loadConfigFile
\* fails the constructor returns at once: the members of the static pool
\* object keep their zero initialisation and no thread is started.
Init ==
  /\ configLoaded \in BOOLEAN
  /\ initSize \in (IF configLoaded THEN 1..MaxInitSize ELSE {0})
  /\ maxSize \in (IF configLoaded THEN initSize..(initSize + MaxExtra) ELSE {0})
  /\ maxIdleTime = (IF configLoaded THEN MaxIdleSecs ELSE 0)
  /\ connectionTimeout = (IF configLoaded THEN TimeoutTicks * TickMs ELSE 0)
  /\ connectionQue = [i \in 1..initSize |-> i]
  /\ connectionCnt = initSize
  /\ exists = [c \in Conns |-> c <= initSize]
  /\ lastConnect \in (IF configLoaded THEN BOOLEAN ELSE {TRUE})
  /\ age = [c \in Conns |-> 0]
  /\ queueMutex = {}
  /\ pc = [t \in Threads |->
             IF t \in Clients THEN "idle"
             ELSE IF ~ThreadsStarted THEN "off"
             ELSE IF t = Producer THEN "p_lock" ELSE "s_sleep"]
  /\ status = [t \in Clients |-> "none"]
  /\ waitLeft = [t \in Clients |-> 0]
  /\ waited = [t \in Clients |-> 0]
  /\ exhausted = [t \in Clients |-> FALSE]
  /\ ret = [t \in Clients |-> "none"]
  /\ leases = [t \in Clients |-> {}]
  /\ releasing = [t \in Clients |-> {}]
  /\ sleepLeft = (IF ThreadsStarted THEN maxIdleTime * MsPerSec ELSE 0)
  /\ health = "ok"

\* Mutant of Acquire: the lock does not wait for the holder to release it.
Acquire_NoBlock(t) == queueMutex' = queueMutex \cup {t}

\* unique_lock<mutex> lock(_queueMutex): blocks while another thread holds it.
Acquire(t) ==
  /\ queueMutex = {}
  /\ queueMutex' = {t}

\* The unique_lock goes out of scope, or cv.wait releases the mutex.
Release(t) == queueMutex' = queueMutex \ {t}

\* ------------------------------------------------------------------ clock
WaitedCap == connectionTimeout + TickMs

\* TickMs milliseconds pass: idle times grow, a cv.wait_for whose time is up
\* returns cv_status::timeout, a sleep_for whose time is up returns.
Tick ==
  /\ health = "ok"
  /\ age' = [c \in Conns |-> IF exists[c] THEN Older(age[c], TickMs) ELSE age[c]]
  /\ waitLeft' = [t \in Clients |->
                    IF pc[t] = "g_wait" THEN Max(0, waitLeft[t] - TickMs) ELSE waitLeft[t]]
  /\ waited' = [t \in Clients |->
                  IF pc[t] = "g_wait" /\ exhausted[t]
                    THEN Min(waited[t] + TickMs, WaitedCap) ELSE waited[t]]
  /\ status' = [t \in Clients |->
                  IF pc[t] = "g_wait" /\ waitLeft'[t] = 0 THEN "timeout" ELSE status[t]]
  /\ sleepLeft' = (IF pc[Scanner] = "s_sleep" THEN Max(0, sleepLeft - TickMs) ELSE sleepLeft)
  /\ pc' = [t \in Threads |->
              IF t \in Clients /\ pc[t] = "g_wait" /\ waitLeft'[t] = 0 THEN "g_lock"
              ELSE IF t = Scanner /\ pc[t] = "s_sleep" /\ sleepLeft' = 0 THEN "s_lock"
              ELSE pc[t]]
  /\ UNCHANGED <<cfgVars, connectionQue, connectionCnt, exists, lastConnect,
                 exhausted, ret, leases, releasing, queueMutex, health>>

\* --------------------------------------------------- produceConnectionTask
\* unique_lock<mutex> lock(_queueMutex), at the top of the loop and when
\* cv.wait returns.
P_Lock ==
  /\ health = "ok"
  /\ pc[Producer] = "p_lock"
  /\ Acquire(Producer)
  /\ pc' = [pc EXCEPT ![Producer] = "p_check"]
  /\ UNCHANGED <<cfgVars, poolVars, clientVars, sleepLeft, health>>

\* while (!_connectionQue.empty()) cv.wait(lock);
P_Wait ==
  /\ health = "ok"
  /\ pc[Producer] = "p_check"
  /\ connectionQue # <<>>
  /\ Release(Producer)
  /\ pc' = [pc EXCEPT ![Producer] = "p_wait"]
  /\ UNCHANGED <<cfgVars, poolVars, clientVars, sleepLeft, health>>

\* Mutant of CanCreate: the limit test is off by one.
CanCreate_OffByOne == connectionCnt <= maxSize

\* if (_connectionCnt < _maxSize)
CanCreate == connectionCnt < maxSize

\* Mutant of P_Produce: the producer also creates when one connection is idle.
P_Produce_Eager ==
  /\ health = "ok"
  /\ pc[Producer] = "p_check"
  /\ Len(connectionQue) <= 1
  /\ IF CanCreate /\ FreeConns # {}
       THEN \E ok \in BOOLEAN :
              /\ exists' = [exists EXCEPT ![NewConn] = TRUE]
              /\ lastConnect' = ok
              /\ age' = refreshAliveTime(age, NewConn)
              /\ connectionQue' = Append(connectionQue, NewConn)
              /\ connectionCnt' = connectionCnt + 1
       ELSE UNCHANGED poolVars
  /\ pc' = [notify_all(pc) EXCEPT ![Producer] = "p_lock"]
  /\ status' = notified(pc, status)
  /\ waitLeft' = [t \in Clients |-> IF pc[t] = "g_wait" THEN 0 ELSE waitLeft[t]]
  /\ Release(Producer)
  /\ UNCHANGED <<cfgVars, waited, exhausted, ret, leases, releasing, sleepLeft, health>>

\* The queue is empty: create one connection if the limit allows it, then
\* cv.notify_all() and the end of the iteration, which unlocks the mutex.
\* connect() may fail: its result is ignored by the code.
P_Produce ==
  /\ health = "ok"
  /\ pc[Producer] = "p_check"
  /\ connectionQue = <<>>
  /\ IF CanCreate /\ FreeConns # {}
       THEN \E ok \in BOOLEAN :
              /\ exists' = [exists EXCEPT ![NewConn] = TRUE]
              /\ lastConnect' = ok
              /\ age' = refreshAliveTime(age, NewConn)
              /\ connectionQue' = Append(connectionQue, NewConn)
              /\ connectionCnt' = connectionCnt + 1
       ELSE UNCHANGED poolVars
  /\ pc' = [notify_all(pc) EXCEPT ![Producer] = "p_lock"]
  /\ status' = notified(pc, status)
  /\ waitLeft' = [t \in Clients |-> IF pc[t] = "g_wait" THEN 0 ELSE waitLeft[t]]
  /\ Release(Producer)
  /\ UNCHANGED <<cfgVars, waited, exhausted, ret, leases, releasing, sleepLeft, health>>

\* --------------------------------------------------- scannerConnectionTask
\* sleep_for has returned: unique_lock<mutex> lock(_queueMutex).
S_Lock ==
  /\ health = "ok"
  /\ pc[Scanner] = "s_lock"
  /\ Acquire(Scanner)
  /\ pc' = [pc EXCEPT ![Scanner] = "s_scan"]
  /\ UNCHANGED <<cfgVars, poolVars, clientVars, sleepLeft, health>>

\* while (_connectionCnt > _initSize)
\* Mutant of ScanMore: the scan keeps one connection more than initSize.
ScanMore_OffByOne == connectionCnt > initSize + 1

ScanMore == connectionCnt > initSize

\* if (p->getAliveeTime() >= (_maxIdleTime * 1000))
Stale(c) == getAliveeTime(c) >= IdleThreshold

\* The scan is over: the lock goes out of scope and the thread sleeps again.
ScanEnd ==
  /\ Release(Scanner)
  /\ pc' = [pc EXCEPT ![Scanner] = "s_sleep"]
  /\ sleepLeft' = maxIdleTime * MsPerSec

\* Mutant of S_Evict: the scan removes the entry at the back of the queue.
S_Evict_Back ==
  /\ health = "ok"
  /\ pc[Scanner] = "s_scan"
  /\ ScanMore
  /\ connectionQue # <<>>
  /\ Stale(Head(connectionQue))
  /\ connectionQue' = SubSeq(connectionQue, 1, Len(connectionQue) - 1)
  /\ connectionCnt' = connectionCnt - 1
  /\ exists' = [exists EXCEPT ![connectionQue[Len(connectionQue)]] = FALSE]
  /\ age' = [age EXCEPT ![connectionQue[Len(connectionQue)]] = 0]
  /\ UNCHANGED <<cfgVars, lastConnect, clientVars, queueMutex, pc, sleepLeft, health>>

\* One iteration that evicts: pop the front, decrement the count, delete it.
S_Evict ==
  /\ health = "ok"
  /\ pc[Scanner] = "s_scan"
  /\ ScanMore
  /\ connectionQue # <<>>
  /\ Stale(Head(connectionQue))
  /\ connectionQue' = Tail(connectionQue)
  /\ connectionCnt' = connectionCnt - 1
  /\ exists' = [exists EXCEPT ![Head(connectionQue)] = FALSE]
  /\ age' = [age EXCEPT ![Head(connectionQue)] = 0]
  /\ UNCHANGED <<cfgVars, lastConnect, clientVars, queueMutex, pc, sleepLeft, health>>

\* The loop ends: the count is down to initSize, or the front is not stale.
S_Stop ==
  /\ health = "ok"
  /\ pc[Scanner] = "s_scan"
  /\ \/ ~ScanMore
     \/ ScanMore /\ connectionQue # <<>> /\ ~Stale(Head(connectionQue))
  /\ ScanEnd
  /\ UNCHANGED <<cfgVars, poolVars, clientVars, health>>

\* _connectionQue.front() with the count above initSize and the queue empty
\* (every connection is leased).  front() of an empty std::queue is
\* undefined: p is whatever the deque's storage holds.  What the build can
\* do: the read through p yields a value below the threshold and the loop
\* breaks ("break"); the read through p faults ("crash"); the read yields a
\* value at or above the threshold and the code pops the empty queue,
\* decrements the count and deletes p ("evict"), p being garbage or the
\* stale address of a connection that is leased.
FrontOfEmptyOutcomes == {"break", "crash", "evict"}

S_FrontOfEmpty ==
  /\ health = "ok"
  /\ pc[Scanner] = "s_scan"
  /\ ScanMore
  /\ connectionQue = <<>>
  /\ \E o \in FrontOfEmptyOutcomes :
       \/ /\ o = "break"
          /\ ScanEnd
          /\ UNCHANGED <<poolVars, health>>
       \/ /\ o = "crash"
          /\ health' = "crashed"
          /\ UNCHANGED <<poolVars, queueMutex, pc, sleepLeft>>
       \/ /\ o = "evict"
          /\ health' = "corrupt"
          /\ connectionCnt' = connectionCnt - 1
          /\ \E victims \in {{}} \cup {{c} : c \in {d \in Conns : exists[d] /\ Stale(d)}} :
               exists' = [c \in Conns |-> exists[c] /\ c \notin victims]
          /\ UNCHANGED <<connectionQue, lastConnect, age, queueMutex, pc, sleepLeft>>
  /\ UNCHANGED <<cfgVars, clientVars>>

\* ------------------------------------------------------------ getConnection
\* A client thread calls getConnection(): unique_lock<mutex> lock(_queueMutex).
G_Enter(t) ==
  /\ health = "ok"
  /\ pc[t] = "idle"
  /\ Acquire(t)
  /\ pc' = [pc EXCEPT ![t] = "g_check"]
  /\ status' = [status EXCEPT ![t] = "none"]
  /\ ret' = [ret EXCEPT ![t] = "none"]
  /\ exhausted' = [exhausted EXCEPT ![t] =
                     connectionQue = <<>> /\ connectionCnt = maxSize]
  /\ UNCHANGED <<cfgVars, poolVars, waitLeft, waited, leases, releasing,
                 sleepLeft, health>>

\* cv.wait_for has returned (notified or timed out): it takes the mutex again.
G_Relock(t) ==
  /\ health = "ok"
  /\ pc[t] = "g_lock"
  /\ Acquire(t)
  /\ pc' = [pc EXCEPT ![t] = "g_check"]
  /\ UNCHANGED <<cfgVars, poolVars, clientVars, sleepLeft, health>>

\* The time cv.wait_for is given: the whole _connectionTimeout, every time.
WaitBudget(t) == connectionTimeout

\* The queue is empty and the last wait did not time out:
\* cv.wait_for(lock, milliseconds(_connectionTimeout)) releases the mutex.
G_Wait(t) ==
  /\ health = "ok"
  /\ pc[t] = "g_check"
  /\ connectionQue = <<>>
  /\ status[t] # "timeout"
  /\ Release(t)
  /\ IF WaitBudget(t) <= 0
       THEN /\ pc' = [pc EXCEPT ![t] = "g_lock"]
            /\ status' = [status EXCEPT ![t] = "timeout"]
            /\ waitLeft' = [waitLeft EXCEPT ![t] = 0]
       ELSE /\ pc' = [pc EXCEPT ![t] = "g_wait"]
            /\ status' = status
            /\ waitLeft' = [waitLeft EXCEPT ![t] = WaitBudget(t)]
  /\ UNCHANGED <<cfgVars, poolVars, waited, exhausted, ret, leases, releasing,
                 sleepLeft, health>>

\* Mutant of G_ReturnNull: after a timeout the queue is not looked at again.
G_ReturnNull_NoRecheck(t) ==
  /\ health = "ok"
  /\ pc[t] = "g_check"
  /\ status[t] = "timeout"
  /\ Release(t)
  /\ pc' = [pc EXCEPT ![t] = "idle"]
  /\ ret' = [ret EXCEPT ![t] = "null"]
  /\ status' = [status EXCEPT ![t] = "none"]
  /\ exhausted' = [exhausted EXCEPT ![t] = FALSE]
  /\ waited' = [waited EXCEPT ![t] = 0]
  /\ UNCHANGED <<cfgVars, poolVars, waitLeft, leases, releasing,
                 sleepLeft, health>>

\* Mutant of G_ReturnNull: the timed-out call gives up one unit of Live Count.
G_ReturnNull_Drop(t) ==
  /\ health = "ok"
  /\ pc[t] = "g_check"
  /\ connectionQue = <<>>
  /\ status[t] = "timeout"
  /\ Release(t)
  /\ pc' = [pc EXCEPT ![t] = "idle"]
  /\ ret' = [ret EXCEPT ![t] = "null"]
  /\ status' = [status EXCEPT ![t] = "none"]
  /\ exhausted' = [exhausted EXCEPT ![t] = FALSE]
  /\ waited' = [waited EXCEPT ![t] = 0]
  /\ connectionCnt' = connectionCnt - 1
  /\ UNCHANGED <<cfgVars, connectionQue, exists, lastConnect, age, waitLeft,
                 leases, releasing, sleepLeft, health>>

\* The wait timed out and the queue is still empty: LOG and return nullptr.
G_ReturnNull(t) ==
  /\ health = "ok"
  /\ pc[t] = "g_check"
  /\ connectionQue = <<>>
  /\ status[t] = "timeout"
  /\ Release(t)
  /\ pc' = [pc EXCEPT ![t] = "idle"]
  /\ ret' = [ret EXCEPT ![t] = "null"]
  /\ status' = [status EXCEPT ![t] = "none"]
  /\ exhausted' = [exhausted EXCEPT ![t] = FALSE]
  /\ waited' = [waited EXCEPT ![t] = 0]
  /\ UNCHANGED <<cfgVars, poolVars, waitLeft, leases, releasing,
                 sleepLeft, health>>

\* Mutant of G_Take: the front connection is handed out but not popped.
G_Take_NoPop(t) ==
  /\ health = "ok"
  /\ pc[t] = "g_check"
  /\ connectionQue # <<>>
  /\ leases' = [leases EXCEPT ![t] = @ \cup {Head(connectionQue)}]
  /\ connectionQue' = connectionQue
  /\ ret' = [ret EXCEPT ![t] = "conn"]
  /\ pc' = [notify_all(pc) EXCEPT ![t] = "idle"]
  /\ status' = [notified(pc, status) EXCEPT ![t] = "none"]
  /\ waitLeft' = [u \in Clients |-> IF pc[u] = "g_wait" THEN 0 ELSE waitLeft[u]]
  /\ exhausted' = [exhausted EXCEPT ![t] = FALSE]
  /\ waited' = [waited EXCEPT ![t] = 0]
  /\ Release(t)
  /\ UNCHANGED <<cfgVars, connectionCnt, exists, lastConnect, age,
                 releasing, sleepLeft, health>>

\* The queue is not empty: wrap the front in a shared_ptr whose deleter
\* returns it, pop it, cv.notify_all(), return the handle (the lock unlocks).
G_Take(t) ==
  /\ health = "ok"
  /\ pc[t] = "g_check"
  /\ connectionQue # <<>>
  /\ leases' = [leases EXCEPT ![t] = @ \cup {Head(connectionQue)}]
  /\ connectionQue' = Tail(connectionQue)
  /\ ret' = [ret EXCEPT ![t] = "conn"]
  /\ pc' = [notify_all(pc) EXCEPT ![t] = "idle"]
  /\ status' = [notified(pc, status) EXCEPT ![t] = "none"]
  /\ waitLeft' = [u \in Clients |-> IF pc[u] = "g_wait" THEN 0 ELSE waitLeft[u]]
  /\ exhausted' = [exhausted EXCEPT ![t] = FALSE]
  /\ waited' = [waited EXCEPT ![t] = 0]
  /\ Release(t)
  /\ UNCHANGED <<cfgVars, connectionCnt, exists, lastConnect, age,
                 releasing, sleepLeft, health>>

\* ------------------------------------------------- the shared_ptr deleter
\* The last reference to a handle is dropped and its deleter runs:
\* unique_lock<mutex> lock(_queueMutex).
R_Lock(t, c) ==
  /\ health = "ok"
  /\ pc[t] = "idle"
  /\ c \in leases[t]
  /\ Acquire(t)
  /\ releasing' = [releasing EXCEPT ![t] = {c}]
  /\ ret' = [ret EXCEPT ![t] = "none"]
  /\ pc' = [pc EXCEPT ![t] = "r_push"]
  /\ UNCHANGED <<cfgVars, poolVars, status, waitLeft, waited, exhausted,
                 leases, sleepLeft, health>>

\* Mutant of Returned: the connection is put back at the front.
Returned_Front(q, c) == <<c>> \o q

\* _connectionQue.push(pcon)
Returned(q, c) == Append(q, c)

\* Mutant of R_Push: the deleter does not refresh the idle time.
R_Push_NoRefresh(t) ==
  /\ health = "ok"
  /\ pc[t] = "r_push"
  /\ \E c \in releasing[t] :
       /\ connectionQue' = Returned(connectionQue, c)
       /\ leases' = [leases EXCEPT ![t] = @ \ {c}]
  /\ releasing' = [releasing EXCEPT ![t] = {}]
  /\ exhausted' = [u \in Clients |-> FALSE]
  /\ waited' = [u \in Clients |-> 0]
  /\ Release(t)
  /\ pc' = [pc EXCEPT ![t] = "idle"]
  /\ UNCHANGED <<cfgVars, connectionCnt, exists, lastConnect, age, status,
                 waitLeft, ret, sleepLeft, health>>

\* pcon->refreshAliveTime(); _connectionQue.push(pcon); the lock unlocks.
R_Push(t) ==
  /\ health = "ok"
  /\ pc[t] = "r_push"
  /\ \E c \in releasing[t] :
       /\ age' = refreshAliveTime(age, c)
       /\ connectionQue' = Returned(connectionQue, c)
       /\ leases' = [leases EXCEPT ![t] = @ \ {c}]
  /\ releasing' = [releasing EXCEPT ![t] = {}]
  /\ exhausted' = [u \in Clients |-> FALSE]
  /\ waited' = [u \in Clients |-> 0]
  /\ Release(t)
  /\ pc' = [pc EXCEPT ![t] = "idle"]
  /\ UNCHANGED <<cfgVars, connectionCnt, exists, lastConnect, status, waitLeft,
                 ret, sleepLeft, health>>

\* -------------------------------------------------------------------- Next
Next ==
  \/ Tick
  \/ P_Lock
  \/ P_Wait
  \/ P_Produce
  \/ S_Lock
  \/ S_Evict
  \/ S_Stop
  \/ S_FrontOfEmpty
  \/ \E t \in Clients : G_Enter(t)
  \/ \E t \in Clients : G_Relock(t)
  \/ \E t \in Clients : G_Wait(t)
  \/ \E t \in Clients : G_ReturnNull(t)
  \/ \E t \in Clients : G_Take(t)
  \/ \E t \in Clients : \E c \in Conns : R_Lock(t, c)
  \/ \E t \in Clients : R_Push(t)

Spec == Init /\ [][Next]_vars

\* The pool when the application only calls getConnection and keeps every
\* handle it gets: all steps of the pool's threads and of getConnection, no
\* run of a deleter.
NextA ==
  \/ Tick
  \/ P_Lock
  \/ P_Wait
  \/ P_Produce
  \/ S_Lock
  \/ S_Evict
  \/ S_Stop
  \/ S_FrontOfEmpty
  \/ \E t \in Clients : G_Enter(t)
  \/ \E t \in Clients : G_Relock(t)
  \/ \E t \in Clients : G_Wait(t)
  \/ \E t \in Clients : G_ReturnNull(t)
  \/ \E t \in Clients : G_Take(t)

ScenarioA == Init /\ [][NextA]_vars

\* Scenario C names the connections c1, c2, c3 in the order of their
\* creation.  A connection the Producer creates is newer than every
\* connection of the pool when its identity is the largest.
FreshIsNewest ==
  (CanCreate /\ FreeConns # {}) => \A d \in Conns : exists[d] => d < NewConn

\* The pool for as long as every new connection gets an identity above those
\* of the pool, so that the order of the identities is the order of creation.
NextC ==
  \/ Tick
  \/ P_Lock
  \/ P_Wait
  \/ FreshIsNewest /\ P_Produce
  \/ S_Lock
  \/ S_Evict
  \/ S_Stop
  \/ S_FrontOfEmpty
  \/ \E t \in Clients : G_Enter(t)
  \/ \E t \in Clients : G_Relock(t)
  \/ \E t \in Clients : G_Wait(t)
  \/ \E t \in Clients : G_ReturnNull(t)
  \/ \E t \in Clients : G_Take(t)
  \/ \E t \in Clients : \E c \in Conns : R_Lock(t, c)
  \/ \E t \in Clients : R_Push(t)

ScenarioC == Init /\ [][NextC]_vars

\* Under fair scheduling every thread that can take a step eventually takes
\* it, and a thread that can take the mutex again and again eventually gets
\* it.  Calling getConnection and dropping a handle are the application's
\* choice and are not forced.
Fairness ==
  /\ WF_vars(Tick)
  /\ SF_vars(P_Lock) /\ WF_vars(P_Wait) /\ WF_vars(P_Produce)
  /\ SF_vars(S_Lock) /\ WF_vars(S_Evict) /\ WF_vars(S_Stop)
  /\ \A t \in Clients :
       /\ SF_vars(G_Relock(t)) /\ WF_vars(G_Wait(t))
       /\ WF_vars(G_ReturnNull(t)) /\ WF_vars(G_Take(t))
       /\ WF_vars(R_Push(t))

FairSpec == Spec /\ Fairness

\* ================================================================== claims
Occurrences(q, c) == Cardinality({i \in DOMAIN q : q[i] = c})
Holders(c) == {t \in Clients : c \in leases[t]}
RECURSIVE SumLeases(_)
SumLeases(T) ==
  IF T = {} THEN 0
  ELSE LET t == CHOOSE u \in T : TRUE
       IN Cardinality(leases[t]) + SumLeases(T \ {t})

\* C1: in every reachable state each connection that has been created and
\* not destroyed is in exactly one place, once in the idle queue or held by
\* exactly one lease handle, a destroyed connection is in neither, and
\* Live Count = length of the idle queue + number of outstanding leases.
C1_ExactlyOnePlace ==
  /\ \A c \in Conns :
       Occurrences(connectionQue, c) + Cardinality(Holders(c))
         = (IF exists[c] THEN 1 ELSE 0)
  /\ connectionCnt = Len(connectionQue) + SumLeases(Clients)

\* C2: with initSize <= maxSize configured, in every state after
\* construction initSize <= Live Count <= maxSize.
C2_LiveCountBounds ==
  (configLoaded /\ initSize <= maxSize)
    => (initSize <= connectionCnt /\ connectionCnt <= maxSize)

\* C2 witness: the pool grew above initSize and the scanner shrank it back,
\* evicting the first connection the constructor created.
C2_Witness ==
  /\ configLoaded /\ health = "ok"
  /\ initSize < maxSize
  /\ connectionCnt = initSize
  /\ ~exists[1]

\* C3: a getConnection call against an exhausted pool (queue empty, Live
\* Count = maxSize, no lease returned during the call) spends at most
\* connectionTimeout in cv.wait_for in total while the process runs, and
\* Live Count stays maxSize.
C3_TimeoutBound ==
  \A t \in Clients :
    (InCall(t) /\ exhausted[t] /\ health = "ok")
      => (waited[t] <= connectionTimeout /\ connectionCnt = maxSize)

\* C4: under fair scheduling, whenever the idle queue is empty and Live
\* Count < maxSize, the idle queue eventually holds a connection again (the
\* Producer creates and pushes one).
C4_ProducerReplenishes ==
  (health = "ok" /\ connectionQue = <<>> /\ connectionCnt < maxSize)
    ~> (connectionQue # <<>> \/ health # "ok")

\* C5: every step that lowers Live Count is taken with Live Count > initSize,
\* removes the front of the idle queue, that front has been idle for at
\* least the threshold, and Live Count stays >= initSize.
C5_EvictionFloor ==
  [][connectionCnt' < connectionCnt
       => /\ connectionCnt > initSize
          /\ connectionCnt' >= initSize
          /\ connectionQue # <<>>
          /\ Stale(Head(connectionQue))
          /\ connectionQue' = Tail(connectionQue)]_vars

\* C6: the step of the release callback appends the returned connection
\* once at the tail of the idle queue and refreshes its idle time (so its
\* idle reading does not grow); Live Count, the set of existing connections
\* and the idle time of every other connection are unchanged, and the
\* handle is gone.
C6_ReleaseFrame ==
  [][\A t \in Clients :
       (pc[t] = "r_push" /\ pc'[t] # "r_push")
         => \E c \in releasing[t] :
              /\ connectionQue' = Append(connectionQue, c)
              /\ Occurrences(connectionQue', c) = 1
              /\ age'[c] <= age[c]
              /\ age'[c] = 0
              /\ \A d \in Conns \ {c} : age'[d] = age[d]
              /\ connectionCnt' = connectionCnt
              /\ exists' = exists
              /\ leases' = [leases EXCEPT ![t] = @ \ {c}]]_vars

\* C6 witness: a release pushed a connection behind one that has been idle
\* for a while (the Producer only pushes onto an empty queue).
C6_Witness ==
  /\ health = "ok"
  /\ Len(connectionQue) >= 2
  /\ age[connectionQue[Len(connectionQue)]] = 0
  /\ age[connectionQue[1]] > 0

\* C7: no step of a getConnection call other than the one that returns a
\* connection changes the idle queue, Live Count, the set of existing
\* connections, the idle times or the leases; in particular the step that
\* returns null after a timeout.
C7_TimeoutNoEffect ==
  [][\A t \in Clients :
       ( /\ pc[t] \in {"idle", "g_lock", "g_check"}
         /\ pc'[t] # pc[t]
         /\ pc'[t] # "r_push"
         /\ ret'[t] # "conn" )
         => UNCHANGED <<connectionQue, connectionCnt, exists, age, leases>>]_vars

\* C7 witness: a call on a configured pool has returned null.
C7_Witness ==
  \E t \in Clients : configLoaded /\ ret[t] = "null" /\ pc[t] = "idle"

\* C8: when loading the configuration failed, the idle queue is empty, Live
\* Count is 0, neither background thread runs, no getConnection returns a
\* connection, no lease exists and the process does not crash.
C8_ConfigFailure ==
  ~configLoaded
    => /\ connectionQue = <<>>
       /\ connectionCnt = 0
       /\ pc[Producer] = "off" /\ pc[Scanner] = "off"
       /\ \A t \in Clients : ret[t] # "conn" /\ leases[t] = {}
       /\ health = "ok"

\* C8 witness: on an unconfigured pool a getConnection has returned null.
C8_Witness ==
  \E t \in Clients : ~configLoaded /\ ret[t] = "null" /\ pc[t] = "idle"

\* C9: Live Count is incremented only for a connection whose connect()
\* returned true.
C9_FailedConnectNotCounted ==
  [][connectionCnt' > connectionCnt => lastConnect']_vars

\* C10: a thread that is about to read or write the idle queue or Live
\* Count holds the mutex, at most one thread holds the mutex, and every
\* change of the idle queue or of Live Count is made by the thread holding it.
AccessPcs == {"p_check", "s_scan", "g_check", "r_push"}
C10_LockDiscipline ==
  /\ [](/\ Cardinality(queueMutex) <= 1
        /\ \A t \in Threads : pc[t] \in AccessPcs => queueMutex = {t})
  /\ [][(connectionQue' # connectionQue \/ connectionCnt' # connectionCnt)
          => \E t \in Threads : queueMutex = {t} /\ pc[t] \in AccessPcs]_vars

\* C10 witness: one thread is inside its critical section while another
\* one is blocked on the mutex.
C10_Witness ==
  \E t \in Threads : \E u \in Threads \ {t} :
    /\ queueMutex = {t} /\ pc[t] \in AccessPcs
    /\ pc[u] \in {"p_lock", "s_lock", "g_lock"}

\* The clients that are inside getConnection.
Callers == {t \in Clients : InCall(t)}

\* C12: after a successful construction, while no handle has been dropped
\* and at most initSize getConnection calls have been made, the idle queue
\* holds the initSize initial connections that are not handed out and Live
\* Count = initSize; none of these calls waits on the condition variable;
\* each of them returns a connection no caller holds and leaves Live Count
\* alone, and the one that hands out the last initial connection leaves the
\* idle queue empty.
C12_InitialAcquires ==
  /\ [](/\ (configLoaded /\ Callers = {} /\ SumLeases(Clients) = 0)
             => (Len(connectionQue) = initSize /\ connectionCnt = initSize)
        /\ (configLoaded /\ health = "ok"
              /\ SumLeases(Clients) + Cardinality(Callers) <= initSize)
             => /\ \A t \in Callers : pc[t] = "g_check" /\ status[t] = "none"
                /\ \A t \in Clients : \A u \in Clients :
                     t # u => leases[t] \cap leases[u] = {}
                /\ SumLeases(Clients) < initSize
                     => /\ connectionCnt = initSize
                        /\ Len(connectionQue) = initSize - SumLeases(Clients))
  /\ [][\A t \in Clients :
          (InCall(t) /\ ret'[t] = "conn" /\ SumLeases(Clients) < initSize)
            => /\ pc[t] = "g_check" /\ status[t] = "none"
               /\ connectionCnt' = connectionCnt
               /\ connectionCnt = initSize
               /\ \E c \in Conns : /\ Holders(c) = {}
                                   /\ leases' = [leases EXCEPT ![t] = @ \cup {c}]
               /\ SumLeases(Clients) = initSize - 1 => connectionQue' = <<>>]_vars

\* C12 witness: initSize = 2 and two callers have each obtained one of the
\* two initial connections; the idle queue is empty and Live Count is 2.
C12_Witness ==
  /\ health = "ok"
  /\ initSize = 2
  /\ \A t \in Clients : Cardinality(leases[t]) = 1 /\ pc[t] = "idle"
  /\ leases[1] # leases[2]
  /\ connectionQue = <<>>
  /\ connectionCnt = 2

\* No handle is outstanding and no client is inside a call.
AllReleased ==
  \A t \in Clients : pc[t] = "idle" /\ leases[t] = {}

\* C13: under fair scheduling, once every handle has been released with
\* Live Count > initSize, and as long as getConnection is not called again,
\* the scanner eventually brings Live Count down to initSize; and Live
\* Count, once at initSize with everything released, stays there while no
\* call is made.
C13_ReaperShrinksToInit ==
  /\ (health = "ok" /\ AllReleased /\ connectionCnt > initSize)
       ~> (connectionCnt = initSize \/ \E t \in Clients : pc[t] # "idle")
  /\ [][(AllReleased /\ connectionCnt = initSize
           /\ \A t \in Clients : pc'[t] = "idle")
          => connectionCnt' = initSize]_vars

\* C13 witness: everything is released, Live Count is back at initSize and
\* the idle queue holds a connection that the Producer created, so the
\* scanner has evicted one.
C13_Witness ==
  /\ health = "ok"
  /\ AllReleased
  /\ connectionCnt = initSize
  /\ Len(connectionQue) = initSize
  /\ pc[Scanner] = "s_sleep"
  /\ \E i \in DOMAIN connectionQue : connectionQue[i] > initSize

\* The connections that the step destroys.
Destroyed == {c \in Conns : exists[c] /\ ~exists'[c]}

\* C14 as stated: when every handle has been released and the scanner
\* shrinks the pool, the connection it destroys is the one created last, so
\* that the connections created earliest remain.
C14_OldestRemain ==
  [][(health = "ok" /\ SumLeases(Clients) = 0 /\ connectionCnt' < connectionCnt)
       => \A c \in Destroyed : \A d \in Conns : exists[d] => d <= c]_vars

\* C14 amended: when every handle has been released and the scanner shrinks
\* the pool, the connection it destroys is the front of the idle queue, the
\* one that has been idle longest (returned first), whatever the order of
\* creation; the connections returned after it remain, in their order.
C14_LongestIdleEvicted ==
  [][(health = "ok" /\ SumLeases(Clients) = 0 /\ connectionCnt' < connectionCnt)
       => /\ connectionQue # <<>>
          /\ Destroyed = {Head(connectionQue)}
          /\ Stale(Head(connectionQue))
          /\ \A i \in DOMAIN connectionQue :
               getAliveeTime(connectionQue[i]) <= getAliveeTime(Head(connectionQue))
          /\ connectionQue' = Tail(connectionQue)
          /\ connectionCnt' = connectionCnt - 1]_vars

\* C14 witness: every handle has been released and the scanner has shrunk
\* the pool to initSize by destroying c1, the connection created first; the
\* connection created above initSize is still in the idle queue.
C14_Witness ==
  /\ health = "ok"
  /\ AllReleased
  /\ connectionCnt = initSize
  /\ ~exists[1]
  /\ exists[initSize + 1]
  /\ Occurrences(connectionQue, initSize + 1) = 1

\* Thread t is blocked on the condition variable in program counters p.
Waiting(p, t) == p[t] \in {"p_wait", "g_wait"}

\* C11: every step that changes the idle queue wakes every thread that is
\* blocked on the condition variable.
C11_BroadcastOnChange ==
  [][connectionQue' # connectionQue
       => \A t \in Threads : Waiting(pc, t) => ~Waiting(pc', t)]_vars

\* C15: a connection is destroyed only by the scanner holding the mutex,
\* and only the connection at the front of the idle queue, which no handle
\* holds and which is not in the queue afterwards.
C15_DestroyedOnlyFromQueue ==
  [][\A c \in Conns :
       (exists[c] /\ ~exists'[c])
         => /\ queueMutex = {Scanner}
            /\ connectionQue # <<>>
            /\ c = Head(connectionQue)
            /\ Holders(c) = {}
            /\ Occurrences(connectionQue', c) = 0]_vars

\* C16: the idle queue is ordered by idle time, longest idle at the front;
\* so when the front is not stale no entry of the queue is stale.
C16_QueueOrderedByIdleTime ==
  /\ \A i \in DOMAIN connectionQue : \A j \in DOMAIN connectionQue :
       i < j => getAliveeTime(connectionQue[i]) >= getAliveeTime(connectionQue[j])
  /\ (connectionQue # <<>> /\ ~Stale(Head(connectionQue)))
       => \A i \in DOMAIN connectionQue : ~Stale(connectionQue[i])

\* C16 witness: the scanner, with Live Count above initSize, is about to stop
\* its scan at a front entry that is not stale, with more entries behind it.
C16_Witness ==
  /\ health = "ok"
  /\ pc[Scanner] = "s_scan"
  /\ ScanMore
  /\ Len(connectionQue) >= 2
  /\ ~Stale(Head(connectionQue))

\* The connections that the step creates.
Created == {c \in Conns : ~exists[c] /\ exists'[c]}

\* C17: every step that creates a connection is taken by the Producer
\* holding the mutex, with the idle queue empty and Live Count < maxSize;
\* afterwards the queue holds exactly that one connection and Live Count
\* has grown by exactly one.  No other step raises Live Count.
C17_ProducerOneAtATime ==
  [][(Created # {} \/ connectionCnt' > connectionCnt)
       => /\ queueMutex = {Producer}
          /\ pc[Producer] = "p_check"
          /\ connectionQue = <<>>
          /\ connectionCnt < maxSize
          /\ Cardinality(Created) = 1
          /\ \E c \in Created : connectionQue' = <<c>>
          /\ connectionCnt' = connectionCnt + 1]_vars

\* C17 witness: the Producer has just created a connection above initSize,
\* the only idle one, and released the mutex.
C17_Witness ==
  /\ health = "ok"
  /\ pc[Producer] = "p_lock"
  /\ connectionCnt > initSize
  /\ Len(connectionQue) = 1
  /\ SumLeases(Clients) = connectionCnt - 1
  /\ age[connectionQue[1]] = 0

\* C18: getConnection returns null only in a step taken with the mutex held
\* and the idle queue empty; a caller that holds the mutex and finds the
\* queue non-empty, after a broadcast or after a timeout, pops the front
\* connection and returns it.
C18_NullOnlyWhenEmpty ==
  [][\A t \in Clients :
       /\ (ret'[t] = "null" /\ ret[t] # "null")
            => (queueMutex = {t} /\ connectionQue = <<>>)
       /\ (pc[t] = "g_check" /\ connectionQue # <<>> /\ pc'[t] # pc[t])
            => /\ ret'[t] = "conn"
               /\ Head(connectionQue) \in leases'[t]
               /\ connectionQue' = Tail(connectionQue)]_vars

\* C18 witness: a caller whose wait timed out holds the mutex and finds a
\* connection that was returned to the queue meanwhile.
C18_Witness ==
  \E t \in Clients :
    /\ health = "ok"
    /\ pc[t] = "g_check"
    /\ status[t] = "timeout"
    /\ connectionQue # <<>>

\* C19: when the scanner is in its scan loop with Live Count > initSize,
\* the idle queue, whose front it reads next, is not empty.
C19_FrontOnlyWhenNonEmpty ==
  (health = "ok" /\ pc[Scanner] = "s_scan" /\ ScanMore) => connectionQue # <<>>

\* C20: a Producer that holds the mutex, finds the idle queue empty and has
\* nothing to create (Live Count = maxSize) blocks on the condition variable
\* instead of starting its loop again.
C20_ProducerBlocksWhenFull ==
  [][(pc[Producer] = "p_check" /\ connectionQue = <<>> /\ ~CanCreate)
       => pc'[Producer] \in {"p_check", "p_wait"}]_vars

====
